---- MODULE Spec2Model ----
\* InvoicePro: the invoice calculator (src/utils/calculations.ts), the
\* creation page (src/pages/CreateInvoice.tsx) and the invoice record
\* manager (hooks/useInvoices.ts) over the remote store.
EXTENDS Integers, Sequences, FiniteSets, TLC

VARIABLES
    user,        \* AuthContext: id of the signed-in user
    invoices,    \* useInvoices: the in-memory invoice list (React state)
    clients,     \* useClients: the in-memory client list (React state)
    dbClients,   \* store: rows of table clients (all users)
    clientSeq,   \* store: number of client ids handed out so far
    dbInvoices,  \* store: rows of table invoices (all users)
    dbItems,     \* store: rows of table invoice_items
    idSeq,       \* store: number of ids / creation timestamps handed out so far
    year,        \* new Date().getFullYear()
    lastCall,    \* the most recent call of the page or the record manager, with its outcome
    calcIn,      \* argument of the calculator function under examination
    calcOut,     \* what the calculator function returned for calcIn
    inflight,    \* useInvoices: the operations that are suspended at an await
    opSeq,       \* number of suspendable operations started so far
    userProfile, \* AuthContext: the profile row of the signed-in user, or null
    loading,     \* AuthContext: loading
    session,     \* identity provider: the user of the current session
    authPending, \* AuthContext: getSession / fetchUserProfile calls not yet answered
    location     \* router: the current path

vars == <<user, invoices, clients, dbClients, clientSeq, dbInvoices, dbItems, idSeq, year,
          lastCall, calcIn, calcOut, inflight, opSeq, userProfile, loading, session,
          authPending, location>>
asyncVars == <<inflight, opSeq>>
authVars == <<userProfile, loading, session, authPending, location>>
clientVars == <<clients, dbClients, clientSeq>>
appVars == <<user, invoices, clientVars, dbInvoices, dbItems, idSeq, year, lastCall>>
calcVars == <<calcIn, calcOut>>

-----------------------------------------------------------------------------
\* JavaScript numbers.  A finite number is an exact fraction <<n, d>> in lowest
\* terms with d > 0; NaN and undefined are the two values with d = 0.  The
\* arithmetic is exact: the rounding of IEEE-754 doubles is not represented.

NaN == <<0, 0>>
Undefined == <<1, 0>>

IsNum(x) == x[2] > 0

Abs(n) == IF n < 0 THEN -n ELSE n

RECURSIVE GCD(_, _)
GCD(a, b) == IF b = 0 THEN a ELSE GCD(b, a % b)

Norm(n, d) ==
    LET g == GCD(Abs(n), d)
    IN  <<n \div g, d \div g>>

Num(n) == <<n, 1>>
Frac(n, d) == Norm(n, d)
Zero == Num(0)

\* sums over the least common denominator and products after cross-cancelling,
\* so that intermediate values stay small
Add(a, b) ==
    IF IsNum(a) /\ IsNum(b)
    THEN LET g == GCD(a[2], b[2])
         IN  Norm(a[1] * (b[2] \div g) + b[1] * (a[2] \div g), (a[2] \div g) * b[2])
    ELSE NaN

Neg(a) == IF IsNum(a) THEN <<-a[1], a[2]>> ELSE NaN

Sub(a, b) == Add(a, Neg(b))

Mul(a, b) ==
    IF IsNum(a) /\ IsNum(b)
    THEN LET g1 == GCD(Abs(a[1]), b[2])
             g2 == GCD(Abs(b[1]), a[2])
         IN  Norm((a[1] \div g1) * (b[1] \div g2), (a[2] \div g2) * (b[2] \div g1))
    ELSE NaN

\* division by a positive integer constant (the code only ever divides by 100)
DivInt(a, k) == Mul(a, <<1, k>>)

\* a <= b, false when either side is NaN or undefined (as in JavaScript)
Leq(a, b) ==
    /\ IsNum(a) /\ IsNum(b)
    /\ LET g == GCD(a[2], b[2]) IN a[1] * (b[2] \div g) <= b[1] * (a[2] \div g)

\* x || 0 : 0, NaN and undefined are falsy
OrZero(x) == IF IsNum(x) THEN x ELSE Zero

-----------------------------------------------------------------------------
\* src/utils/calculations.ts

\* the per-item discount is not subtracted
calculateItemTotal_NoDiscount(item) == Mul(item.quantity, item.price)

calculateItemTotal(item) ==
    LET subtotal == Mul(item.quantity, item.price)
        discountAmount == Mul(DivInt(OrZero(item.discount), 100), subtotal)
    IN  Sub(subtotal, discountAmount)

RECURSIVE ReduceSubtotal_SkipLast(_, _, _)
\* off by one: the last item is left out of the sum
ReduceSubtotal_SkipLast(items, i, sum) ==
    IF i >= Len(items) THEN sum
    ELSE ReduceSubtotal_SkipLast(items, i + 1, Add(sum, calculateItemTotal(items[i])))

RECURSIVE ReduceSubtotal(_, _, _)
\* items.reduce((sum, item) => sum + calculateItemTotal(item), 0), left to right from index i
ReduceSubtotal(items, i, sum) ==
    IF i > Len(items) THEN sum
    ELSE ReduceSubtotal(items, i + 1, Add(sum, calculateItemTotal(items[i])))

calculateInvoiceSubtotal(items) == ReduceSubtotal(items, 1, Zero)

calculateTaxAmount(subtotal, taxRate) == DivInt(Mul(subtotal, taxRate), 100)

\* the tax is taken on the undiscounted subtotal
calculateInvoiceTotal_TaxBeforeDiscount(subtotal, discount, taxRate) ==
    LET discountAmount == Mul(DivInt(discount, 100), subtotal)
        taxAmount == calculateTaxAmount(subtotal, taxRate)
    IN  [discountAmount |-> discountAmount, taxAmount |-> taxAmount,
         total |-> Add(Sub(subtotal, discountAmount), taxAmount)]

calculateInvoiceTotal(subtotal, discount, taxRate) ==
    LET discountAmount == Mul(DivInt(discount, 100), subtotal)
        discountedSubtotal == Sub(subtotal, discountAmount)
        taxAmount == calculateTaxAmount(discountedSubtotal, taxRate)
        total == Add(discountedSubtotal, taxAmount)
    IN  [discountAmount |-> discountAmount, taxAmount |-> taxAmount, total |-> total]

TwoDigits(n) == IF n < 10 THEN "0" \o ToString(n) ELSE ToString(n)

ThreeDigits(n) == IF n < 100 THEN "0" \o TwoDigits(n) ELSE ToString(n)

RECURSIVE GroupThousands(_)
\* en-US digit grouping of a natural number
GroupThousands(n) ==
    IF n < 1000 THEN ToString(n)
    ELSE GroupThousands(n \div 1000) \o "," \o ThreeDigits(n % 1000)

\* Intl.NumberFormat('en-US', { style: 'currency', currency: 'USD' }).format(amount):
\* two decimals, rounded half away from zero
formatCurrency(amount) ==
    IF ~IsNum(amount) THEN "$NaN"
    ELSE LET cents == (2 * 100 * Abs(amount[1]) + amount[2]) \div (2 * amount[2])
         IN  (IF amount[1] < 0 THEN "-" ELSE "")
                 \o "$" \o GroupThousands(cents \div 100) \o "." \o TwoDigits(cents % 100)

-----------------------------------------------------------------------------
\* utils/pdf.ts: the texts generateManualPDF puts on the page

\* Number.prototype.toString of a quantity (a whole number or NaN)
NumberToString(x) == IF IsNum(x) THEN ToString(x[1]) ELSE "NaN"

\* the line amount is taken after the item's discount
PdfLine_Discounted(item) ==
    LET itemTotal == calculateItemTotal(item)
    IN  [name |-> item.name,
         quantity |-> NumberToString(item.quantity),
         price |-> formatCurrency(item.price),
         itemTotal |-> itemTotal,
         total |-> formatCurrency(itemTotal)]

\* invoice.items.forEach: one table row per item
PdfLine(item) ==
    LET itemTotal == Mul(item.quantity, item.price)
    IN  [name |-> item.name,
         quantity |-> NumberToString(item.quantity),
         price |-> formatCurrency(item.price),
         itemTotal |-> itemTotal,
         total |-> formatCurrency(itemTotal)]

generateManualPDF(invoice) ==
    [header |-> "Invoice #: " \o invoice.invoiceNumber,
     lines |-> [i \in 1..Len(invoice.items) |-> PdfLine(invoice.items[i])],
     subtotal |-> "Subtotal: " \o formatCurrency(invoice.subtotal),
     discount |-> IF IsNum(invoice.discount) /\ invoice.discount[1] > 0
                  THEN "Discount: -" \o formatCurrency(invoice.discount)
                  ELSE "",
     tax |-> "Tax: " \o formatCurrency(invoice.taxAmount),
     total |-> "Total: " \o formatCurrency(invoice.total),
     file |-> "Invoice-" \o invoice.invoiceNumber \o ".pdf"]

-----------------------------------------------------------------------------
\* src/pages/CreateInvoice.tsx: the totals the page shows and submits

RECURSIVE ReduceWatched(_, _, _)
\* watchedItems.reduce(...) of the calculations memo
ReduceWatched(items, i, sum) ==
    IF i > Len(items) THEN sum
    ELSE LET item == items[i]
             itemTotal == Mul(OrZero(item.quantity), OrZero(item.price))
             itemDiscount == Mul(DivInt(OrZero(item.discount), 100), itemTotal)
         IN  ReduceWatched(items, i + 1, Add(sum, Sub(itemTotal, itemDiscount)))

calculations(form) ==
    LET subtotal == ReduceWatched(form.items, 1, Zero)
        t == calculateInvoiceTotal(subtotal, OrZero(form.discount), OrZero(form.tax_rate))
    IN  [subtotal |-> subtotal, discountAmount |-> t.discountAmount,
         taxAmount |-> t.taxAmount, total |-> t.total]

\* the Amount column of the preview table
PreviewLineAmount(item) ==
    LET itemTotal == Mul(OrZero(item.quantity), OrZero(item.price))
        itemDiscount == Mul(DivInt(OrZero(item.discount), 100), itemTotal)
        finalAmount == Sub(itemTotal, itemDiscount)
    IN  formatCurrency(finalAmount)

-----------------------------------------------------------------------------
\* The calculator examined as pure functions: the argument is drawn at
\* initialisation, one action per exported function applies it.

MaxItems == 3

Item(q, p, d) == [name |-> "Item", quantity |-> q, price |-> p, discount |-> d]

QuantityDomain == {Num(1), Num(2), Num(50), Num(0), Num(-1), NaN}
PriceDomain == {Zero, Num(50), Num(100), Frac(1, 2), Num(-1), NaN}
DiscountDomain == {Undefined, NaN, Zero, Num(10), Frac(25, 2), Num(100), Num(150)}
ItemDomain == {Item(q, p, d) : q \in QuantityDomain, p \in PriceDomain, d \in DiscountDomain}

\* items that appear in lists
ListItemDomain ==
    { Item(Num(2), Num(100), Num(10)),
      Item(Num(50), Num(50), Zero),
      Item(Num(1), Frac(1, 2), Frac(25, 2)),
      Item(Num(1), Num(100), Undefined),
      Item(NaN, Num(100), NaN) }

ItemLists == UNION { [1..n -> ListItemDomain] : n \in 0..MaxItems }

SubtotalDomain == {Zero, Num(180), Num(2500), Frac(1, 3), Frac(9999, 100), NaN}
PercentDomain == {Zero, Num(5), Num(10), Frac(17, 2), Num(100)}

CalcInputs ==
    {[kind |-> "item", item |-> i] : i \in ItemDomain}
    \cup {[kind |-> "items", items |-> l] : l \in ItemLists}
    \cup {[kind |-> "total", subtotal |-> s, discount |-> d, taxRate |-> t] :
            s \in SubtotalDomain, d \in PercentDomain, t \in PercentDomain}

NoOut == [fn |-> "none"]

ApplyItemTotal ==
    /\ calcIn.kind = "item"
    /\ calcOut = NoOut
    /\ calcOut' = [fn |-> "calculateItemTotal", val |-> calculateItemTotal(calcIn.item)]
    /\ UNCHANGED <<calcIn, appVars, asyncVars, authVars>>

ApplyInvoiceSubtotal ==
    /\ calcIn.kind = "items"
    /\ calcOut = NoOut
    /\ calcOut' = [fn |-> "calculateInvoiceSubtotal", val |-> calculateInvoiceSubtotal(calcIn.items)]
    /\ UNCHANGED <<calcIn, appVars, asyncVars, authVars>>

ApplyInvoiceTotal ==
    /\ calcIn.kind = "total"
    /\ calcOut = NoOut
    /\ calcOut' = [fn |-> "calculateInvoiceTotal",
                   val |-> calculateInvoiceTotal(calcIn.subtotal, calcIn.discount, calcIn.taxRate)]
    /\ UNCHANGED <<calcIn, appVars, asyncVars, authVars>>

ApplyGenerateManualPDF ==
    /\ calcIn.kind = "invoice"
    /\ calcOut = NoOut
    /\ calcOut' = [fn |-> "generateManualPDF", val |-> generateManualPDF(calcIn.invoice)]
    /\ UNCHANGED <<calcIn, appVars, asyncVars, authVars>>

-----------------------------------------------------------------------------
\* The remote store (supabase/migrations: tables invoices and invoice_items,
\* row-level security) and the session.


NoUser == "none"
MockAdminId == "00000000-0000-0000-0000-000000000001"
MockDemoId == "00000000-0000-0000-0000-000000000002"
RealUsers == {"user-1", "user-2"}
Users == RealUsers \cup {MockAdminId, MockDemoId}

\* auth.uid() of the requests the client sends: the two demonstration sessions
\* exist in React state only, the store sees no authenticated caller for them
AuthUid(u) == IF u \in RealUsers THEN u ELSE NoUser

\* users.is_admin: the registered users whose row carries the admin flag
StoreAdmins == {"user-2"}

NullProfile == [id |-> "<null>", is_admin |-> FALSE]

\* the row of table users with this id
UserRow(id) == [id |-> id, is_admin |-> id \in StoreAdmins]

\* the profile the context holds for user u once it is loaded: the users row,
\* or mockAdminProfile / mockDemoProfile
ProfileOf(u) ==
    IF u = MockAdminId THEN [id |-> MockAdminId, is_admin |-> TRUE]
    ELSE IF u = MockDemoId THEN [id |-> MockDemoId, is_admin |-> FALSE]
    ELSE UserRow(u)

\* the client of each user offered by the page's client select ("" = nothing selected)
ClientOf(u) == "client-of-" \o u
ClientId(n) == "client-" \o ToString(n)

\* CREATE TABLE clients: the row an insert of clientData produces
ClientRow(id, createdAt, userId, clientData) ==
    [id |-> id,
     user_id |-> userId,
     name |-> clientData.name,
     email |-> clientData.email,
     created_at |-> createdAt]

\* the clients the store holds at the start: one of each registered user
SeedClients ==
    {ClientRow(ClientOf(u), 0, u, [name |-> "Client of " \o u, email |-> "client@example.com"]) :
        u \in RealUsers}

\* the ids client_id REFERENCES clients(id) accepts
ClientIds == {c.id : c \in dbClients}

\* insert policy of table clients
ClientInsertRejected(row) == AuthUid(user) /= row.user_id

Null == <<2, 0>>
NullLink == "<null>"
Origin == "https://invoicepro.app"
StatusSet == {"draft", "sent", "paid", "overdue"}

\* new Date() of the session, as yyyymmdd
Today == 20261106

\* decimal(p,2): the value rounded half away from zero to two places
Round2(x) ==
    LET sign == IF x[1] < 0 THEN -1 ELSE 1
        k == (2 * 100 * Abs(x[1]) + x[2]) \div (2 * x[2])
    IN  Norm(sign * k, 100)

\* what a decimal(p,2) column holds after a number was sent as JSON:
\* NaN is serialised as null, an absent key takes the column default
DecimalColumn(x, default) ==
    IF IsNum(x) THEN Round2(x)
    ELSE IF x = Undefined THEN default
    ELSE Null

IsInteger(x) == IsNum(x) /\ x[2] = 1

InvoiceId(n) == "inv-" \o ToString(n)

NumericColumns == {"subtotal", "discount", "tax_rate", "tax_amount", "total"}

\* CREATE TABLE invoices: the row an insert of invoiceData produces
InvoiceRow(id, createdAt, userId, clientId, invoiceNumber, invoiceData) ==
    [id |-> id,
     user_id |-> userId,
     client_id |-> clientId,
     invoice_number |-> invoiceNumber,
     status |-> invoiceData.status,
     subtotal |-> DecimalColumn(invoiceData.subtotal, Zero),
     discount |-> DecimalColumn(invoiceData.discount, Zero),
     tax_rate |-> DecimalColumn(invoiceData.tax_rate, Zero),
     tax_amount |-> DecimalColumn(invoiceData.tax_amount, Zero),
     total |-> DecimalColumn(invoiceData.total, Null),
     due_date |-> invoiceData.due_date,
     payment_link |-> NullLink,
     created_at |-> createdAt]

\* constraints of table invoices and its insert policy
InvoiceInsertRejected(row) ==
    \/ AuthUid(user) /= row.user_id                             \* WITH CHECK (auth.uid() = user_id)
    \/ \E r \in dbInvoices : r.invoice_number = row.invoice_number   \* invoice_number UNIQUE
    \/ row.client_id \notin ClientIds                           \* client_id REFERENCES clients(id)
    \/ ~IsNum(row.total)                                        \* total NOT NULL

\* CREATE TABLE invoice_items: the rows an insert of the items produces
ItemRows(invoiceId, items) ==
    { [id |-> invoiceId \o "-item-" \o ToString(i),
       invoice_id |-> invoiceId,
       name |-> items[i].name,
       quantity |-> items[i].quantity,
       price |-> DecimalColumn(items[i].price, Null),
       discount |-> DecimalColumn(items[i].discount, Zero)] : i \in 1..Len(items) }

ItemsInsertRejected(db, invoiceId, items) ==
    \/ ~\E r \in db : r.id = invoiceId /\ r.user_id = AuthUid(user)   \* insert policy of invoice_items
    \/ \E i \in 1..Len(items) :
          \/ ~IsInteger(items[i].quantity)       \* quantity integer NOT NULL
          \/ ~IsNum(items[i].price)              \* price decimal(10,2) NOT NULL

\* the payment link is cleared by every update that does not set it
ApplyPatch_ClearLink(row, patch) ==
    [f \in DOMAIN row |->
        IF f \in DOMAIN patch
        THEN IF f \in NumericColumns THEN DecimalColumn(patch[f], row[f]) ELSE patch[f]
        ELSE IF f = "payment_link" THEN NullLink ELSE row[f]]

\* an update writes the patch's columns, numeric ones converted to decimal(p,2)
ApplyPatch(row, patch) ==
    [f \in DOMAIN row |->
        IF f \in DOMAIN patch
        THEN IF f \in NumericColumns THEN DecimalColumn(patch[f], row[f]) ELSE patch[f]
        ELSE row[f]]

RECURSIVE SortNewestFirst(_)
\* .order('created_at', { ascending: false })
SortNewestFirst(rows) ==
    IF rows = {} THEN <<>>
    ELSE LET newest == CHOOSE r \in rows : \A q \in rows : q.created_at <= r.created_at
         IN  <<newest>> \o SortNewestFirst(rows \ {newest})

NullClient == [id |-> "<null>"]

\* client:clients(*): the referenced client as the select policy of clients
\* shows it to u, null when the policy hides it
EmbedClient(clientId, u) ==
    LET shown == {c \in dbClients : c.id = clientId /\ c.user_id = AuthUid(u)}
    IN  IF shown = {} THEN NullClient ELSE CHOOSE c \in shown : TRUE

\* select *, client:clients(*), invoice_items(*) ... .eq('user_id', u), as the
\* store answers it for the tables db and items
SelectInvoices(db, items, u) ==
    LET visible == {r \in db : r.user_id = AuthUid(u) /\ r.user_id = u}
        sorted == SortNewestFirst(visible)
    IN  [i \in 1..Len(sorted) |->
            sorted[i] @@ [client |-> EmbedClient(sorted[i].client_id, u),
                          invoice_items |-> {it \in items : it.invoice_id = sorted[i].id}]]

\* select('*').eq('user_id', u).order('created_at', { ascending: false }) on clients
SelectClients(db, u) == SortNewestFirst({c \in db : c.user_id = AuthUid(u) /\ c.user_id = u})

\* the count ignores the owner
CountInvoices_AllUsers(u) == Cardinality(dbInvoices)

\* select('*', { count: 'exact', head: true }).eq('user_id', u)
CountInvoices(u) == Cardinality({r \in dbInvoices : r.user_id = AuthUid(u) /\ r.user_id = u})

-----------------------------------------------------------------------------
\* hooks/useInvoices.ts: the invoice record manager

\* { ...a, ...b }
Spread(a, b) == [f \in DOMAIN a \cup DOMAIN b |-> IF f \in DOMAIN b THEN b[f] ELSE a[f]]

RECURSIVE PadStart(_, _, _)
\* String.prototype.padStart
PadStart(str, targetLength, padString) ==
    IF Len(str) >= targetLength THEN str
    ELSE PadStart(padString \o str, targetLength, padString)

FormatInvoiceNumber(fullYear, invoiceCount) ==
    "INV-" \o ToString(fullYear) \o "-" \o PadStart(ToString(invoiceCount), 4, "0")

mockInvoices ==
    << [id |-> "mock-inv-1",
        user_id |-> "admin@invoicepro.com",
        client_id |-> "mock-1",
        invoice_number |-> "INV-2024-0001",
        status |-> "sent",
        subtotal |-> Num(2500),
        tax_rate |-> Frac(17, 2),
        tax_amount |-> Frac(425, 2),
        total |-> Frac(5425, 2),
        payment_link |-> NullLink,
        created_at |-> 0,
        invoice_items |-> {[id |-> "mock-item-1", invoice_id |-> "mock-inv-1",
                            quantity |-> Num(50), rate |-> Num(50), amount |-> Num(2500)]}] >>

isMockUser(u) == u /= NoUser /\ (u = "admin@invoicepro.com" \/ u = "demo@invoicepro.com")

\* fetchInvoices: the list the hook holds afterwards, given the tables it reads
fetchInvoices(u, current, db, items, errs) ==
    IF isMockUser(u)
    THEN SelectSeq(mockInvoices, LAMBDA invoice : invoice.user_id = u)
    ELSE IF "select" \in errs
         THEN current                          \* caught and logged, the list stays
         ELSE SelectInvoices(db, items, u)

\* the store requests fetchInvoices sends
fetchInvoicesSent(u) == IF isMockUser(u) THEN {} ELSE {"select"}

\* generateInvoiceNumber: [count, number] where count is what the count query answered
generateInvoiceNumber(errs) ==
    IF isMockUser(user)
    THEN [count |-> Num(Len(invoices)),
          number |-> FormatInvoiceNumber(year, Len(invoices) + 1),
          sent |-> {}, failed |-> {}]
    ELSE LET count == IF "count" \in errs THEN Null ELSE Num(CountInvoices(user))
             invoiceCount == OrZero(count)[1] + 1
         IN  [count |-> count, number |-> FormatInvoiceNumber(year, invoiceCount),
              sent |-> {"count"}, failed |-> errs \cap {"count"}]

\* the invoice row is deleted again when the insert of its items fails
createInvoice_Rollback(clientId, items, invoiceData, errs) ==
    LET number == generateInvoiceNumber(errs)
        id == InvoiceId(idSeq + 1)
        row == InvoiceRow(id, idSeq + 1, user, clientId, number.number, invoiceData)
        db1 == dbInvoices \cup {row}
        items1 == dbItems \cup ItemRows(id, items)
        ended(list, db, its, outcome, sent, failed) ==
            [invoices |-> list, dbInvoices |-> db, dbItems |-> its, idSeq |-> idSeq + 1,
             outcome |-> outcome, invoiceNumber |-> number.number,
             returned |-> IF outcome = "ok" THEN "undefined" ELSE "nothing",
             sent |-> number.sent \cup sent, failed |-> number.failed \cup failed]
    IN  IF "insertInvoice" \in errs \/ InvoiceInsertRejected(row)
        THEN ended(invoices, dbInvoices, dbItems, "error", {"insertInvoice"}, {"insertInvoice"})
        ELSE IF "insertItems" \in errs \/ ItemsInsertRejected(db1, id, items)
        THEN ended(invoices, dbInvoices, dbItems, "error",
                   {"insertInvoice", "insertItems", "delete"}, {"insertItems"})
        ELSE ended(fetchInvoices(user, invoices, db1, items1, errs), db1, items1, "ok",
                   {"insertInvoice", "insertItems", "select"}, errs \cap {"select"})

\* createInvoice: the state it leaves and how it ends; sent and failed are the
\* store requests it issued and those answered with an error
createInvoice(clientId, items, invoiceData, errs) ==
    LET number == generateInvoiceNumber(errs)
        invoiceNumber == number.number
        id == InvoiceId(idSeq + 1)
        unchanged == [invoices |-> invoices, dbInvoices |-> dbInvoices,
                      dbItems |-> dbItems, idSeq |-> idSeq]
    IN  IF user = NoUser
        THEN unchanged @@ [outcome |-> "error", invoiceNumber |-> "", returned |-> "nothing",
                           sent |-> {}, failed |-> {}]
        ELSE IF isMockUser(user)
        THEN LET mockId == "mock-inv-" \o ToString(idSeq + 1)
                 newInvoice ==
                     Spread(invoiceData,
                            [id |-> mockId, user_id |-> user, client_id |-> clientId,
                             invoice_number |-> invoiceNumber, created_at |-> idSeq + 1,
                             invoice_items |->
                                 {Spread(items[i], [id |-> "mock-item-" \o ToString(i),
                                                    invoice_id |-> mockId]) : i \in 1..Len(items)}])
             IN  [invoices |-> <<newInvoice>> \o invoices, dbInvoices |-> dbInvoices,
                  dbItems |-> dbItems, idSeq |-> idSeq + 1,
                  outcome |-> "ok", invoiceNumber |-> invoiceNumber, returned |-> mockId,
                  sent |-> {}, failed |-> {}]
        ELSE LET row == InvoiceRow(id, idSeq + 1, user, clientId, invoiceNumber, invoiceData)
             IN  IF "insertInvoice" \in errs \/ InvoiceInsertRejected(row)
                 THEN unchanged @@ [outcome |-> "error", invoiceNumber |-> invoiceNumber,
                                    returned |-> "nothing",
                                    sent |-> number.sent \cup {"insertInvoice"},
                                    failed |-> number.failed \cup {"insertInvoice"}]
                 ELSE LET db1 == dbInvoices \cup {row}
                      IN  IF "insertItems" \in errs \/ ItemsInsertRejected(db1, id, items)
                          THEN [invoices |-> invoices, dbInvoices |-> db1, dbItems |-> dbItems,
                                idSeq |-> idSeq + 1, outcome |-> "error",
                                invoiceNumber |-> invoiceNumber, returned |-> "nothing",
                                sent |-> number.sent \cup {"insertInvoice", "insertItems"},
                                failed |-> number.failed \cup {"insertItems"}]
                          ELSE LET items1 == dbItems \cup ItemRows(id, items)
                                   \* invoices.find(...) reads the list of the render that
                                   \* started the call, not the list just fetched
                                   found == {i \in 1..Len(invoices) : invoices[i].id = id}
                               IN  [invoices |-> fetchInvoices(user, invoices, db1, items1, errs),
                                    dbInvoices |-> db1, dbItems |-> items1,
                                    idSeq |-> idSeq + 1, outcome |-> "ok",
                                    invoiceNumber |-> invoiceNumber,
                                    returned |-> IF found = {} THEN "undefined" ELSE id,
                                    sent |-> number.sent
                                             \cup {"insertInvoice", "insertItems", "select"},
                                    failed |-> number.failed \cup (errs \cap {"select"})]

\* updateInvoice
updateInvoice(id, invoiceData, errs) ==
    IF isMockUser(user)
    THEN [invoices |-> [i \in 1..Len(invoices) |->
                           IF invoices[i].id = id THEN Spread(invoices[i], invoiceData)
                           ELSE invoices[i]],
          dbInvoices |-> dbInvoices, outcome |-> "ok", sent |-> {}, failed |-> {}]
    ELSE IF "update" \in errs
         THEN [invoices |-> invoices, dbInvoices |-> dbInvoices, outcome |-> "error",
               sent |-> {"update"}, failed |-> {"update"}]
         ELSE LET db1 == { IF r.id = id /\ r.user_id = user /\ r.user_id = AuthUid(user)
                           THEN ApplyPatch(r, invoiceData) ELSE r : r \in dbInvoices }
              IN  [invoices |-> fetchInvoices(user, invoices, db1, dbItems, errs),
                   dbInvoices |-> db1, outcome |-> "ok",
                   sent |-> {"update", "select"}, failed |-> errs \cap {"select"}]

\* the items of the deleted invoice are left in the store
deleteInvoice_KeepItems(id, errs) ==
    IF "delete" \in errs
    THEN [invoices |-> invoices, dbInvoices |-> dbInvoices, dbItems |-> dbItems,
          outcome |-> "error", sent |-> {"delete"}, failed |-> {"delete"}]
    ELSE [invoices |-> SelectSeq(invoices, LAMBDA invoice : invoice.id /= id),
          dbInvoices |-> {r \in dbInvoices : ~(r.id = id /\ r.user_id = AuthUid(user))},
          dbItems |-> dbItems,
          outcome |-> "ok", sent |-> {"delete"}, failed |-> {}]

\* deleteInvoice
deleteInvoice(id, errs) ==
    LET kept == SelectSeq(invoices, LAMBDA invoice : invoice.id /= id)
    IN  IF isMockUser(user)
        THEN [invoices |-> kept, dbInvoices |-> dbInvoices, dbItems |-> dbItems,
              outcome |-> "ok", sent |-> {}, failed |-> {}]
        ELSE IF "delete" \in errs
             THEN [invoices |-> invoices, dbInvoices |-> dbInvoices, dbItems |-> dbItems,
                   outcome |-> "error", sent |-> {"delete"}, failed |-> {"delete"}]
             ELSE LET gone == {r \in dbInvoices :
                                  r.id = id /\ r.user_id = user /\ r.user_id = AuthUid(user)}
                  IN  [invoices |-> kept,
                       dbInvoices |-> dbInvoices \ gone,
                       \* invoice_id REFERENCES invoices(id) ON DELETE CASCADE
                       dbItems |-> {it \in dbItems : \A r \in gone : it.invoice_id /= r.id},
                       outcome |-> "ok", sent |-> {"delete"}, failed |-> {}]

\* overdue is derived from the due date, as the dashboard does
getInvoicesByStatus_DueDate(status) ==
    SelectSeq(invoices,
              LAMBDA invoice :
                  IF status = "overdue"
                  THEN invoice.status = "overdue"
                           \/ (invoice.status = "sent" /\ invoice.due_date < Today)
                  ELSE invoice.status = status)

\* getInvoicesByStatus
getInvoicesByStatus(status) == SelectSeq(invoices, LAMBDA invoice : invoice.status = status)

-----------------------------------------------------------------------------
\* pages/Dashboard.tsx: the statistics of the dashboard

\* new Date('yyyy-mm-dd'): the start of that day; instants are yyyymmddhh
NewDate(day) == day * 100

\* stats: the three filtered lists and their lengths, for the list held and
\* the instant now = new Date()
stats(list, now) ==
    LET paidInvoices == SelectSeq(list, LAMBDA inv : inv.status = "paid")
        pendingInvoices == SelectSeq(list, LAMBDA inv : inv.status = "sent")
        overdueInvoices ==
            SelectSeq(list, LAMBDA inv : inv.status = "sent" /\ NewDate(inv.due_date) < now)
    IN  [paid |-> paidInvoices, pending |-> pendingInvoices, overdue |-> overdueInvoices,
         paidInvoices |-> Len(paidInvoices),
         pendingInvoices |-> Len(pendingInvoices),
         overdueInvoices |-> Len(overdueInvoices)]

-----------------------------------------------------------------------------
\* src/hooks/useClients.ts: the client record manager

mockClients ==
    << [id |-> "mock-1", user_id |-> "admin@invoicepro.com", name |-> "Acme Corporation",
        email |-> "contact@acme.com", created_at |-> 0],
       [id |-> "mock-2", user_id |-> "admin@invoicepro.com", name |-> "Tech Solutions Inc",
        email |-> "hello@techsolutions.com", created_at |-> 0] >>

\* fetchClients: the list the hook holds afterwards
fetchClients(u, current, db, errs) ==
    IF isMockUser(u)
    THEN SelectSeq(mockClients, LAMBDA client : client.user_id = u)
    ELSE IF "selectClients" \in errs
         THEN current                          \* caught and logged, the list stays
         ELSE SelectClients(db, u)

\* the store requests fetchClients sends
fetchClientsSent(u) == IF isMockUser(u) THEN {} ELSE {"selectClients"}

\* addClient
addClient(clientData, errs) ==
    LET unchanged == [clients |-> clients, dbClients |-> dbClients, clientSeq |-> clientSeq]
    IN  IF user = NoUser
        THEN unchanged @@ [outcome |-> "error", sent |-> {}, failed |-> {}]
        ELSE IF isMockUser(user)
        THEN LET newClient ==
                     Spread(clientData, [id |-> "mock-" \o ToString(clientSeq + 1),
                                         user_id |-> user, created_at |-> clientSeq + 1])
             IN  [clients |-> <<newClient>> \o clients, dbClients |-> dbClients,
                  clientSeq |-> clientSeq + 1, outcome |-> "ok", sent |-> {}, failed |-> {}]
        ELSE LET row == ClientRow(ClientId(clientSeq + 1), clientSeq + 1, user, clientData)
             IN  IF "insertClient" \in errs \/ ClientInsertRejected(row)
                 THEN unchanged @@ [outcome |-> "error", sent |-> {"insertClient"},
                                    failed |-> {"insertClient"}]
                 ELSE [clients |-> <<row>> \o clients, dbClients |-> dbClients \cup {row},
                       clientSeq |-> clientSeq + 1, outcome |-> "ok",
                       sent |-> {"insertClient"}, failed |-> {}]

\* the local list is rewritten before the store has answered
updateClient_Optimistic(id, clientData, errs) ==
    LET mapped == [i \in 1..Len(clients) |->
                      IF clients[i].id = id THEN Spread(clients[i], clientData) ELSE clients[i]]
    IN  IF "updateClient" \in errs
        THEN [clients |-> mapped, dbClients |-> dbClients, outcome |-> "error",
              sent |-> {"updateClient"}, failed |-> {"updateClient"}]
        ELSE [clients |-> mapped,
              dbClients |-> { IF c.id = id /\ c.user_id = user /\ c.user_id = AuthUid(user)
                              THEN Spread(c, clientData) ELSE c : c \in dbClients },
              outcome |-> "ok", sent |-> {"updateClient"}, failed |-> {}]

\* updateClient
updateClient(id, clientData, errs) ==
    LET mapped == [i \in 1..Len(clients) |->
                      IF clients[i].id = id THEN Spread(clients[i], clientData) ELSE clients[i]]
    IN  IF isMockUser(user)
        THEN [clients |-> mapped, dbClients |-> dbClients, outcome |-> "ok",
              sent |-> {}, failed |-> {}]
        ELSE IF "updateClient" \in errs
        THEN [clients |-> clients, dbClients |-> dbClients, outcome |-> "error",
              sent |-> {"updateClient"}, failed |-> {"updateClient"}]
        ELSE [clients |-> mapped,
              \* .eq('id', id).eq('user_id', user.id) under the update policy
              dbClients |-> { IF c.id = id /\ c.user_id = user /\ c.user_id = AuthUid(user)
                              THEN Spread(c, clientData) ELSE c : c \in dbClients },
              outcome |-> "ok", sent |-> {"updateClient"}, failed |-> {}]

\* the delete is filtered by id only and no policy applies
deleteClient_Unscoped(id, errs) ==
    LET gone == {c \in dbClients : c.id = id}
        goneInvoices == {r \in dbInvoices : \E c \in gone : r.client_id = c.id}
    IN  IF "deleteClient" \in errs
        THEN [clients |-> clients, dbClients |-> dbClients, dbInvoices |-> dbInvoices,
              dbItems |-> dbItems, outcome |-> "error",
              sent |-> {"deleteClient"}, failed |-> {"deleteClient"}]
        ELSE [clients |-> SelectSeq(clients, LAMBDA client : client.id /= id),
              dbClients |-> dbClients \ gone,
              dbInvoices |-> dbInvoices \ goneInvoices,
              dbItems |-> {it \in dbItems : \A r \in goneInvoices : it.invoice_id /= r.id},
              outcome |-> "ok", sent |-> {"deleteClient"}, failed |-> {}]

\* deleteClient
deleteClient(id, errs) ==
    LET kept == SelectSeq(clients, LAMBDA client : client.id /= id)
        \* .eq('id', id).eq('user_id', user.id) under the delete policy
        gone == {c \in dbClients : c.id = id /\ c.user_id = user /\ c.user_id = AuthUid(user)}
        \* invoices.client_id REFERENCES clients(id) ON DELETE CASCADE
        goneInvoices == {r \in dbInvoices : \E c \in gone : r.client_id = c.id}
    IN  IF isMockUser(user)
        THEN [clients |-> kept, dbClients |-> dbClients, dbInvoices |-> dbInvoices,
              dbItems |-> dbItems, outcome |-> "ok", sent |-> {}, failed |-> {}]
        ELSE IF "deleteClient" \in errs
        THEN [clients |-> clients, dbClients |-> dbClients, dbInvoices |-> dbInvoices,
              dbItems |-> dbItems, outcome |-> "error",
              sent |-> {"deleteClient"}, failed |-> {"deleteClient"}]
        ELSE [clients |-> kept,
              dbClients |-> dbClients \ gone,
              dbInvoices |-> dbInvoices \ goneInvoices,
              \* invoice_items.invoice_id REFERENCES invoices(id) ON DELETE CASCADE
              dbItems |-> {it \in dbItems : \A r \in goneInvoices : it.invoice_id /= r.id},
              outcome |-> "ok", sent |-> {"deleteClient"}, failed |-> {}]

-----------------------------------------------------------------------------
\* src/pages/CreateInvoice.tsx: validation and submission

InRange(x, lo, hi) == Leq(Num(lo), x) /\ Leq(x, Num(hi))

\* invoiceSchema
SchemaValid(form) ==
    /\ form.client_id /= ""
    /\ Len(form.items) >= 1
    /\ \A i \in 1..Len(form.items) :
          LET item == form.items[i]
          IN  /\ item.name /= ""
              /\ Leq(Num(1), item.quantity)
              /\ Leq(Zero, item.price)
              /\ item.discount = Undefined \/ InRange(item.discount, 0, 100)
    /\ form.discount = Undefined \/ InRange(form.discount, 0, 100)
    /\ form.tax_rate = Undefined \/ InRange(form.tax_rate, 0, 100)

Default0(x) == IF x = Undefined THEN Zero ELSE x

\* the data handleSubmit hands to onSubmit: the form with the schema's defaults
SchemaCast(form) ==
    [form EXCEPT !.discount = Default0(@),
                 !.tax_rate = Default0(@),
                 !.items = [i \in 1..Len(@) |-> [@[i] EXCEPT !.discount = Default0(@)]]]

Buttons == {"SaveDraft", "CreateAndSend", "PreviewSaveDraft", "PreviewSendInvoice"}

\* the status argument is dropped and onSubmit's default is used
ButtonStatus_Default(button) == "draft"

\* the status each button passes to onSubmit
ButtonStatus(button) ==
    IF button \in {"CreateAndSend", "PreviewSendInvoice"} THEN "sent" ELSE "draft"

\* the two buttons of the edit view go through handleSubmit, the preview ones do not
ButtonValidates(button) == button \in {"SaveDraft", "CreateAndSend"}

\* onSubmit: the invoiceData it builds from the memoised calculations
SubmitInvoiceData(form, data, status) ==
    [status |-> status,
     subtotal |-> calculations(form).subtotal,
     discount |-> calculations(form).discountAmount,
     tax_rate |-> data.tax_rate,
     tax_amount |-> calculations(form).taxAmount,
     total |-> calculations(form).total,
     due_date |-> data.due_date]

-----------------------------------------------------------------------------
\* hooks/useInvoices.ts at the granularity of its awaits.  An operation of a
\* registered user is suspended at every store request; the store answers the
\* requests one at a time in any order, and an operation resumes when the
\* answer to its request has arrived.  An element of inflight is a record with
\* k (the call), op, req (the request it awaits) and answered (the store has
\* processed req), plus the values the operation holds.

\* the caller's rows in table invoices
OwnInvoiceIds == {r.id : r \in {q \in dbInvoices : q.user_id = AuthUid(user) /\ q.user_id = user}}

\* the count answered to a creation also counts the creations that were
\* answered before and have not inserted yet, as a reserving sequence would
AnswerCount_Reserving(o) ==
    Spread(o, [answered |-> TRUE,
               count |-> Num(CountInvoices(user)
                             + Cardinality({q \in inflight : q.op = "createInvoice"
                                                             /\ q.req \in {"count", "insertInvoice"}
                                                             /\ "count" \in DOMAIN q})),
               seen |-> OwnInvoiceIds])

\* generateInvoiceNumber, the count query: seen records the rows that were counted
AnswerCount(o) ==
    Spread(o, [answered |-> TRUE, count |-> Num(CountInvoices(user)), seen |-> OwnInvoiceIds])

\* what the store does with the request of operation o: the operation with the
\* answer, and the tables afterwards
Answer(o) ==
    LET same == [dbInvoices |-> dbInvoices, dbItems |-> dbItems, idSeq |-> idSeq]
    IN  CASE o.req = "count" -> same @@ [o |-> AnswerCount(o)]
          [] o.req = "insertInvoice" ->
                LET row == InvoiceRow(InvoiceId(idSeq + 1), idSeq + 1, user, o.clientId,
                                      o.number, o.invoiceData)
                IN  IF InvoiceInsertRejected(row)
                    THEN same @@ [o |-> Spread(o, [answered |-> TRUE, error |-> TRUE])]
                    ELSE [dbInvoices |-> dbInvoices \cup {row}, dbItems |-> dbItems,
                          idSeq |-> idSeq + 1,
                          o |-> Spread(o, [answered |-> TRUE, error |-> FALSE, id |-> row.id])]
          [] o.req = "insertItems" ->
                IF ItemsInsertRejected(dbInvoices, o.id, o.items)
                THEN same @@ [o |-> Spread(o, [answered |-> TRUE, error |-> TRUE])]
                ELSE [dbInvoices |-> dbInvoices, dbItems |-> dbItems \cup ItemRows(o.id, o.items),
                      idSeq |-> idSeq, o |-> Spread(o, [answered |-> TRUE, error |-> FALSE])]
          [] o.req = "select" ->
                same @@ [o |-> Spread(o, [answered |-> TRUE,
                                          data |-> SelectInvoices(dbInvoices, dbItems, user)])]
          [] o.req = "update" ->
                [dbInvoices |-> { IF r.id = o.id /\ r.user_id = user /\ r.user_id = AuthUid(user)
                                  THEN ApplyPatch(r, o.invoiceData) ELSE r : r \in dbInvoices },
                 dbItems |-> dbItems, idSeq |-> idSeq,
                 o |-> Spread(o, [answered |-> TRUE, error |-> FALSE])]
          [] o.req = "delete" ->
                LET gone == {r \in dbInvoices :
                                r.id = o.id /\ r.user_id = user /\ r.user_id = AuthUid(user)}
                IN  [dbInvoices |-> dbInvoices \ gone,
                     dbItems |-> {it \in dbItems : \A r \in gone : it.invoice_id /= r.id},
                     idSeq |-> idSeq,
                     o |-> Spread(o, [answered |-> TRUE, error |-> FALSE])]

\* the request an operation sends next when req was answered without error
\* ("return": the operation sets the list and returns)
NextRequest(o) ==
    CASE o.req = "count" -> "insertInvoice"
      [] o.req = "insertInvoice" -> "insertItems"
      [] o.req = "insertItems" -> "select"
      [] o.req = "update" -> "select"
      [] o.req = "select" -> "return"
      [] o.req = "delete" -> "return"

\* the code that runs when the awaited answer arrives: the operation either
\* throws the error, sends its next request, or sets the list and returns
Continue(o) ==
    IF o.req /= "count" /\ o.req /= "select" /\ o.error
    THEN [inflight |-> inflight \ {o}, invoices |-> invoices,
          ended |-> TRUE, outcome |-> "error", returned |-> "nothing"]
    ELSE IF NextRequest(o) = "return"
    THEN [inflight |-> inflight \ {o},
          invoices |-> IF o.req = "select" THEN o.data
                       ELSE SelectSeq(invoices, LAMBDA invoice : invoice.id /= o.id),
          ended |-> TRUE, outcome |-> "ok",
          returned |-> IF o.op /= "createInvoice" THEN "nothing"
                       ELSE IF \E i \in 1..Len(o.closure) : o.closure[i].id = o.id
                            THEN o.id ELSE "undefined"]
    ELSE [inflight |->
              (inflight \ {o})
              \cup {Spread(o, [req |-> NextRequest(o), answered |-> FALSE]
                              @@ (IF o.req = "count"
                                  THEN [number |-> FormatInvoiceNumber(year, OrZero(o.count)[1] + 1)]
                                  ELSE [answered |-> FALSE]))},
          invoices |-> invoices, ended |-> FALSE, outcome |-> "pending", returned |-> "nothing"]

-----------------------------------------------------------------------------
\* Actions of the application

NoCall == [op |-> "none"]

KnownIds == {InvoiceId(n) : n \in 1..idSeq}

\* AuthProvider.login / session change, then the mount of a page using the hooks
Login(u, errs) ==
    /\ user = NoUser
    /\ user' = u
    /\ userProfile' = ProfileOf(u)
    /\ session' = AuthUid(u)
    /\ invoices' = fetchInvoices(u, <<>>, dbInvoices, dbItems, errs)
    /\ clients' = fetchClients(u, <<>>, dbClients, errs)
    /\ lastCall' = [op |-> "login", errs |-> errs, outcome |-> "ok",
                    sent |-> fetchInvoicesSent(u) \cup fetchClientsSent(u),
                    failed |-> errs \cap (fetchInvoicesSent(u) \cup fetchClientsSent(u))]
    /\ UNCHANGED <<dbClients, clientSeq, dbInvoices, dbItems, idSeq, year, calcVars, asyncVars,
                   loading, authPending, location>>

\* AuthProvider.logout: the pages behind the route guard unmount
Logout ==
    /\ user /= NoUser
    /\ user' = NoUser
    /\ userProfile' = NullProfile
    /\ session' = NoUser
    /\ invoices' = <<>>
    /\ clients' = <<>>
    /\ lastCall' = [op |-> "logout", outcome |-> "ok"]
    /\ UNCHANGED <<dbClients, clientSeq, dbInvoices, dbItems, idSeq, year, calcVars, asyncVars,
                   loading, authPending, location>>

\* navigation to a page that uses the hooks: fresh useInvoices and useClients
\* start from [] and run fetchInvoices and fetchClients
MountPage(errs) ==
    /\ user /= NoUser
    /\ invoices' = fetchInvoices(user, <<>>, dbInvoices, dbItems, errs)
    /\ clients' = fetchClients(user, <<>>, dbClients, errs)
    /\ lastCall' = [op |-> "fetchInvoices", errs |-> errs, outcome |-> "ok",
                    sent |-> fetchInvoicesSent(user) \cup fetchClientsSent(user),
                    failed |-> errs \cap (fetchInvoicesSent(user) \cup fetchClientsSent(user))]
    /\ UNCHANGED <<user, dbClients, clientSeq, dbInvoices, dbItems, idSeq, year, calcVars, asyncVars, authVars>>

\* CreateInvoice page effect loadInvoiceNumber, or any other call of generateInvoiceNumber
GenerateInvoiceNumber(errs) ==
    /\ user /= NoUser
    /\ lastCall' = [op |-> "generateInvoiceNumber", errs |-> errs,
                    count |-> generateInvoiceNumber(errs).count,
                    number |-> generateInvoiceNumber(errs).number,
                    outcome |-> "ok",
                    sent |-> generateInvoiceNumber(errs).sent,
                    failed |-> generateInvoiceNumber(errs).failed]
    /\ UNCHANGED <<user, invoices, clientVars, dbInvoices, dbItems, idSeq, year, calcVars, asyncVars, authVars>>

\* a click on one of the four buttons of the creation page with the form filled as `form`
Submit(form, button, errs) ==
    /\ user /= NoUser
    /\ IF ButtonValidates(button) /\ ~SchemaValid(form)
       THEN /\ lastCall' = [op |-> "submit", button |-> button, form |-> form, outcome |-> "invalid"]
            /\ UNCHANGED <<invoices, dbInvoices, dbItems, idSeq>>
       ELSE LET data == IF ButtonValidates(button) THEN SchemaCast(form) ELSE form
                invoiceData == SubmitInvoiceData(form, data, ButtonStatus(button))
                res == createInvoice(data.client_id, data.items, invoiceData, errs)
            IN  /\ invoices' = res.invoices
                /\ dbInvoices' = res.dbInvoices
                /\ dbItems' = res.dbItems
                /\ idSeq' = res.idSeq
                /\ lastCall' = [op |-> "createInvoice", button |-> button, errs |-> errs,
                                data |-> data, invoiceData |-> invoiceData,
                                shown |-> calculations(form),
                                invoiceNumber |-> res.invoiceNumber,
                                id |-> InvoiceId(idSeq + 1),
                                returned |-> res.returned, outcome |-> res.outcome,
                                sent |-> res.sent, failed |-> res.failed]
    /\ UNCHANGED <<user, clientVars, year, calcVars, asyncVars, authVars>>

UpdateInvoice(id, invoiceData, errs) ==
    /\ user /= NoUser
    /\ LET res == updateInvoice(id, invoiceData, errs)
       IN  /\ invoices' = res.invoices
           /\ dbInvoices' = res.dbInvoices
           /\ lastCall' = [op |-> "updateInvoice", id |-> id, errs |-> errs,
                           invoiceData |-> invoiceData, outcome |-> res.outcome,
                           sent |-> res.sent, failed |-> res.failed]
    /\ UNCHANGED <<user, clientVars, dbItems, idSeq, year, calcVars, asyncVars, authVars>>

\* markAsPaid
MarkAsPaid(id, errs) ==
    /\ user /= NoUser
    /\ LET res == updateInvoice(id, [status |-> "paid"], errs)
       IN  /\ invoices' = res.invoices
           /\ dbInvoices' = res.dbInvoices
           /\ lastCall' = [op |-> "markAsPaid", id |-> id, errs |-> errs, outcome |-> res.outcome,
                           before |-> {r \in dbInvoices : r.id = id},
                           sent |-> res.sent, failed |-> res.failed]
    /\ UNCHANGED <<user, clientVars, dbItems, idSeq, year, calcVars, asyncVars, authVars>>

\* sendInvoice
SendInvoice(id, errs) ==
    /\ user /= NoUser
    /\ LET paymentLink == Origin \o "/invoice/" \o id
           res == updateInvoice(id, [status |-> "sent", payment_link |-> paymentLink], errs)
       IN  /\ invoices' = res.invoices
           /\ dbInvoices' = res.dbInvoices
           /\ lastCall' = [op |-> "sendInvoice", id |-> id, errs |-> errs, outcome |-> res.outcome,
                           sent |-> res.sent, failed |-> res.failed]
    /\ UNCHANGED <<user, clientVars, dbItems, idSeq, year, calcVars, asyncVars, authVars>>

DeleteInvoice(id, errs) ==
    /\ user /= NoUser
    /\ LET res == deleteInvoice(id, errs)
       IN  /\ invoices' = res.invoices
           /\ dbInvoices' = res.dbInvoices
           /\ dbItems' = res.dbItems
           /\ lastCall' = [op |-> "deleteInvoice", id |-> id, errs |-> errs, outcome |-> res.outcome,
                           before |-> {it \in dbItems : it.invoice_id = id},
                           sent |-> res.sent, failed |-> res.failed]
    /\ UNCHANGED <<user, clientVars, idSeq, year, calcVars, asyncVars, authVars>>

\* getInvoicesByStatus, called by a page on the list it holds
GetInvoicesByStatus(status) ==
    /\ user /= NoUser
    /\ lastCall' = [op |-> "getInvoicesByStatus", status |-> status,
                    result |-> getInvoicesByStatus(status), outcome |-> "ok",
                    sent |-> {}, failed |-> {}]
    /\ UNCHANGED <<user, invoices, clientVars, dbInvoices, dbItems, idSeq, year, calcVars, asyncVars, authVars>>

\* a call of createInvoice with arguments of the caller's choosing
CreateInvoice(clientId, items, invoiceData, errs) ==
    /\ user /= NoUser
    /\ LET res == createInvoice(clientId, items, invoiceData, errs)
       IN  /\ invoices' = res.invoices
           /\ dbInvoices' = res.dbInvoices
           /\ dbItems' = res.dbItems
           /\ idSeq' = res.idSeq
           /\ lastCall' = [op |-> "createInvoice", button |-> "none", errs |-> errs,
                           data |-> [client_id |-> clientId, items |-> items],
                           invoiceData |-> invoiceData,
                           invoiceNumber |-> res.invoiceNumber,
                           id |-> InvoiceId(idSeq + 1),
                           returned |-> res.returned, outcome |-> res.outcome,
                           sent |-> res.sent, failed |-> res.failed]
    /\ UNCHANGED <<user, clientVars, year, calcVars, asyncVars, authVars>>

\* the dashboard renders with the list it holds; now is the time of the render
RenderDashboard(now) ==
    /\ user /= NoUser
    /\ lastCall' = [op |-> "dashboard", now |-> now, stats |-> stats(invoices, now),
                    outcome |-> "ok", sent |-> {}, failed |-> {}]
    /\ UNCHANGED <<user, invoices, clientVars, dbInvoices, dbItems, idSeq, year, calcVars, asyncVars, authVars>>

\* an operation of the hook is called by a registered user and sends its first request
Call(op, req, args) ==
    /\ user /= NoUser
    /\ ~isMockUser(user)
    /\ inflight' = inflight \cup {[k |-> opSeq + 1, op |-> op, req |-> req, answered |-> FALSE] @@ args}
    /\ opSeq' = opSeq + 1
    /\ UNCHANGED <<user, invoices, clientVars, dbInvoices, dbItems, idSeq, year, lastCall,
                   calcVars, authVars>>

\* createInvoice up to the count query of generateInvoiceNumber
CallCreateInvoice(clientId, items, invoiceData) ==
    Call("createInvoice", "count",
         [clientId |-> clientId, items |-> items, invoiceData |-> invoiceData,
          closure |-> invoices])

\* markAsPaid up to the update request of updateInvoice
CallMarkAsPaid(id) == Call("markAsPaid", "update", [id |-> id, invoiceData |-> [status |-> "paid"]])

\* sendInvoice up to the update request of updateInvoice
CallSendInvoice(id) ==
    Call("sendInvoice", "update",
         [id |-> id,
          invoiceData |-> [status |-> "sent", payment_link |-> Origin \o "/invoice/" \o id]])

\* deleteInvoice up to its delete request
CallDeleteInvoice(id) == Call("deleteInvoice", "delete", [id |-> id])

\* the store processes the request of one suspended operation
StoreAnswers(o) ==
    /\ o \in inflight
    /\ ~o.answered
    /\ inflight' = (inflight \ {o}) \cup {Answer(o).o}
    /\ dbInvoices' = Answer(o).dbInvoices
    /\ dbItems' = Answer(o).dbItems
    /\ idSeq' = Answer(o).idSeq
    /\ UNCHANGED <<user, invoices, clientVars, year, lastCall, opSeq, calcVars, authVars>>

\* the answer arrives and the operation runs on to its next await or to its end
Resume(o) ==
    /\ o \in inflight
    /\ o.answered
    /\ inflight' = Continue(o).inflight
    /\ invoices' = Continue(o).invoices
    /\ lastCall' = IF Continue(o).ended
                   THEN [op |-> o.op, k |-> o.k, outcome |-> Continue(o).outcome,
                         returned |-> Continue(o).returned, sent |-> {}, failed |-> {},
                         id |-> IF "id" \in DOMAIN o THEN o.id ELSE "none"]
                   ELSE lastCall
    /\ UNCHANGED <<user, clientVars, dbInvoices, dbItems, idSeq, year, opSeq, calcVars, authVars>>

\* contexts/AuthContext.tsx: the context value read by the route guards
isAuthenticated == user /= NoUser
isAdmin == userProfile.is_admin

\* App.tsx: where each guard leaves the router, given the path it guards
ProtectedRoute(path) ==
    IF loading THEN path
    ELSE IF isAuthenticated THEN path ELSE "/auth"

AdminRoute(path) ==
    IF loading THEN path
    ELSE IF ~isAuthenticated THEN "/auth"
    ELSE IF ~isAdmin THEN "/dashboard"
    ELSE path

AppRoutes(path) ==
    IF loading THEN path
    ELSE IF path = "/auth"
         THEN IF isAuthenticated THEN (IF isAdmin THEN "/admin" ELSE "/dashboard") ELSE "/auth"
    ELSE IF path = "/admin" THEN AdminRoute(path)
    ELSE ProtectedRoute(path)

Paths == {"/auth", "/admin", "/dashboard"}

\* supabase.auth.getSession() is answered: the callback of the session effect
GetSessionResolved ==
    /\ [kind |-> "getSession"] \in authPending
    /\ user' = session
    /\ authPending' =
            (authPending \ {[kind |-> "getSession"]})
            \cup (IF session /= NoUser
                  THEN {[kind |-> "fetchUserProfile", id |-> session, awaited |-> FALSE]}
                  ELSE {})
    /\ loading' = FALSE
    /\ UNCHANGED <<invoices, clientVars, dbInvoices, dbItems, idSeq, year, lastCall, calcVars,
                   asyncVars, userProfile, session, location>>

\* login of a registered user: signInWithPassword succeeds and the
\* onAuthStateChange callback runs up to its await of fetchUserProfile
SignIn(u) ==
    /\ user = NoUser
    /\ session = NoUser
    /\ session' = u
    /\ user' = u
    /\ authPending' = authPending \cup {[kind |-> "fetchUserProfile", id |-> u, awaited |-> TRUE]}
    /\ UNCHANGED <<invoices, clientVars, dbInvoices, dbItems, idSeq, year, lastCall, calcVars,
                   asyncVars, userProfile, loading, location>>

\* logout of a registered user: signOut, then the onAuthStateChange callback
SignOut ==
    /\ user /= NoUser
    /\ user = session
    /\ session' = NoUser
    /\ user' = NoUser
    /\ userProfile' = NullProfile
    /\ loading' = FALSE
    /\ UNCHANGED <<invoices, clientVars, dbInvoices, dbItems, idSeq, year, lastCall, calcVars,
                   asyncVars, authPending, location>>

\* login with the credentials of one of the two demonstration identities
LoginMock(u) ==
    /\ user = NoUser
    /\ u \in {MockAdminId, MockDemoId}
    /\ user' = u
    /\ userProfile' = ProfileOf(u)
    /\ UNCHANGED <<invoices, clientVars, dbInvoices, dbItems, idSeq, year, lastCall, calcVars,
                   asyncVars, loading, session, authPending, location>>

\* logout of a demonstration session
LogoutMock ==
    /\ userProfile /= NullProfile
    /\ user \in {MockAdminId, MockDemoId}
    /\ user' = NoUser
    /\ userProfile' = NullProfile
    /\ UNCHANGED <<invoices, clientVars, dbInvoices, dbItems, idSeq, year, lastCall, calcVars,
                   asyncVars, loading, session, authPending, location>>

\* fetchUserProfile: the select on users is answered; an error (also: no row
\* visible to the session) is caught and logged
ProfileAnswered(p, error) ==
    /\ p \in authPending
    /\ p.kind = "fetchUserProfile"
    /\ userProfile' = IF error \/ session /= p.id THEN userProfile ELSE UserRow(p.id)
    /\ loading' = IF p.awaited THEN FALSE ELSE loading
    /\ authPending' = authPending \ {p}
    /\ UNCHANGED <<user, invoices, clientVars, dbInvoices, dbItems, idSeq, year, lastCall,
                   calcVars, asyncVars, session, location>>

\* the user opens a path (address bar or link)
OpenPath(path) ==
    /\ location' = path
    /\ UNCHANGED <<user, invoices, clientVars, dbInvoices, dbItems, idSeq, year, lastCall,
                   calcVars, asyncVars, userProfile, loading, session, authPending>>

\* the routes render with the current context value and the guard of the
\* current path redirects or lets the page show
RenderRoutes ==
    /\ location' = AppRoutes(location)
    /\ lastCall' = [op |-> "route", from |-> location, to |-> AppRoutes(location),
                    decided |-> ~loading, user |-> user, outcome |-> "ok",
                    sent |-> {}, failed |-> {}]
    /\ UNCHANGED <<user, invoices, clientVars, dbInvoices, dbItems, idSeq, year, calcVars,
                   asyncVars, userProfile, loading, session, authPending>>

KnownClientIds == {ClientOf(u) : u \in RealUsers} \cup {ClientId(n) : n \in 1..clientSeq}

\* Clients page: handleSubmit without a client being edited
AddClient(clientData, errs) ==
    /\ user /= NoUser
    /\ LET res == addClient(clientData, errs)
       IN  /\ clients' = res.clients
           /\ dbClients' = res.dbClients
           /\ clientSeq' = res.clientSeq
           /\ lastCall' = [op |-> "addClient", errs |-> errs, id |-> ClientId(clientSeq + 1),
                           outcome |-> res.outcome, sent |-> res.sent, failed |-> res.failed]
    /\ UNCHANGED <<user, invoices, dbInvoices, dbItems, idSeq, year, calcVars, asyncVars, authVars>>

\* Clients page: handleSubmit for the client being edited
UpdateClient(id, clientData, errs) ==
    /\ user /= NoUser
    /\ LET res == updateClient(id, clientData, errs)
       IN  /\ clients' = res.clients
           /\ dbClients' = res.dbClients
           /\ lastCall' = [op |-> "updateClient", errs |-> errs, id |-> id,
                           outcome |-> res.outcome, sent |-> res.sent, failed |-> res.failed]
    /\ UNCHANGED <<user, invoices, clientSeq, dbInvoices, dbItems, idSeq, year, calcVars, asyncVars, authVars>>

\* Clients page: handleDelete
DeleteClient(id, errs) ==
    /\ user /= NoUser
    /\ LET res == deleteClient(id, errs)
       IN  /\ clients' = res.clients
           /\ dbClients' = res.dbClients
           /\ dbInvoices' = res.dbInvoices
           /\ dbItems' = res.dbItems
           /\ lastCall' = [op |-> "deleteClient", errs |-> errs, id |-> id,
                           outcome |-> res.outcome, sent |-> res.sent, failed |-> res.failed]
    /\ UNCHANGED <<user, invoices, clientSeq, idSeq, year, calcVars, asyncVars, authVars>>

-----------------------------------------------------------------------------
\* Specifications

MaxErrs == 1          \* store calls that fail within one handler
MaxCreates == 1       \* invoices created in the lifecycle specification
MaxNumbered == 3      \* invoices created in the numbering specification
MaxPageCreates == 1   \* invoices created in the creation-page specification
MaxListed == 2        \* invoices created in the status-filter specification
MaxRecords == 1       \* invoices, and clients, created in the record-manager specification

\* the form's default due date: 30 days from today
DefaultDueDate == 20261206

Form(c, items, d, t) ==
    [client_id |-> c, items |-> items, discount |-> d, tax_rate |-> t,
     due_date |-> DefaultDueDate]

\* a valid form (the first scenario of the specification)
PlainForm(u) == Form(ClientOf(u), <<Item(Num(2), Num(100), Num(10))>>, Num(5), Num(10))

\* the ways the creation form is filled in by the signed-in user u
PageForms(u) ==
    { PlainForm(u),
      Form(ClientOf(u), <<Item(Num(50), Num(50), Zero)>>, Zero, Frac(17, 2)),
      Form(ClientOf(u), <<Item(Num(1), Frac(1, 2), Frac(25, 2))>>, Num(5), Num(10)),
      Form(ClientOf(u), <<Item(Num(2), Num(100), Num(10)), Item(Num(50), Num(50), Zero)>>,
           Frac(25, 2), Frac(17, 2)),
      Form(ClientOf(u), <<Item(Num(1), Num(100), NaN)>>, NaN, NaN),
      Form(ClientOf(u), <<Item(NaN, Num(100), Zero)>>, Zero, Num(10)),
      Form("", <<Item(Num(1), Zero, Zero)>>, Zero, Num(10)) }

\* the plain form with a due date that has passed
LateForm(u) == [PlainForm(u) EXCEPT !.due_date = 20261105]

StatusPatches == {[status |-> s] : s \in StatusSet}
AmountPatches == {[total |-> Num(1)], [tax_rate |-> Num(20)]}

ErrSets(calls) == {e \in SUBSET calls : Cardinality(e) <= MaxErrs}

Init ==
    /\ user = NoUser
    /\ invoices = <<>>
    /\ dbInvoices = {}
    /\ dbItems = {}
    /\ idSeq = 0
    /\ clients = <<>>
    /\ dbClients = SeedClients
    /\ clientSeq = 0
    /\ year = 2026
    /\ lastCall = NoCall
    /\ calcIn = [kind |-> "none"]
    /\ calcOut = NoOut
    /\ inflight = {}
    /\ opSeq = 0
    /\ userProfile = NullProfile
    /\ loading = FALSE
    /\ session = NoUser
    /\ authPending = {}
    /\ location = "/auth"

\* the invoice lifecycle: every operation of the record manager on invoices
\* created from the plain form
Next ==
    \/ \E u \in RealUsers, errs \in ErrSets({"select"}) : Login(u, errs)
    \/ Logout
    \/ \E errs \in ErrSets({"select"}) : MountPage(errs)
    \/ /\ idSeq < MaxCreates
       /\ \E button \in Buttons,
             errs \in ErrSets({"count", "insertInvoice", "insertItems", "select"}) :
               Submit(PlainForm(user), button, errs)
    \/ \E id \in KnownIds, p \in StatusPatches, errs \in ErrSets({"update", "select"}) :
            UpdateInvoice(id, p, errs)
    \/ \E id \in KnownIds, errs \in ErrSets({"update", "select"}) : MarkAsPaid(id, errs)
    \/ \E id \in KnownIds, errs \in ErrSets({"update", "select"}) : SendInvoice(id, errs)
    \/ \E id \in KnownIds, errs \in ErrSets({"delete"}) : DeleteInvoice(id, errs)

Spec == Init /\ [][Next]_vars

\* invoice numbering: creation and deletion by two users
NextNumbering ==
    \/ \E u \in RealUsers, errs \in ErrSets({"select"}) : Login(u, errs)
    \/ Logout
    \/ \E errs \in ErrSets({"count"}) : GenerateInvoiceNumber(errs)
    \/ /\ idSeq < MaxNumbered
       /\ \E errs \in ErrSets({"count", "insertInvoice", "insertItems", "select"}) :
               Submit(PlainForm(user), "SaveDraft", errs)
    \/ \E id \in KnownIds, errs \in ErrSets({"delete"}) : DeleteInvoice(id, errs)

SpecNumbering == Init /\ [][NextNumbering]_vars

\* the creation page: every way of filling and submitting the form, and
\* updates of the amounts afterwards
NextPage ==
    \/ \E u \in RealUsers, errs \in ErrSets({"select"}) : Login(u, errs)
    \/ \E errs \in ErrSets({"select"}) : MountPage(errs)
    \/ /\ idSeq < MaxPageCreates
       /\ \E form \in PageForms(user), button \in Buttons,
             errs \in ErrSets({"count", "insertInvoice", "insertItems", "select"}) :
               Submit(form, button, errs)
    \/ \E id \in KnownIds, p \in AmountPatches, errs \in ErrSets({"update", "select"}) :
            UpdateInvoice(id, p, errs)

SpecPage == Init /\ [][NextPage]_vars

\* types Invoice: an invoice as creation from `form` computes it
PdfInvoice(form, invoiceNumber) ==
    [invoiceNumber |-> invoiceNumber,
     clientId |-> form.client_id,
     items |-> form.items,
     subtotal |-> calculations(form).subtotal,
     discount |-> calculations(form).discountAmount,
     taxRate |-> form.tax_rate,
     taxAmount |-> calculations(form).taxAmount,
     total |-> calculations(form).total]

\* the invoices handed to the PDF export: those of the forms that pass validation
PdfInputs ==
    {[kind |-> "invoice", invoice |-> PdfInvoice(SchemaCast(form), FormatInvoiceNumber(2026, n))] :
        form \in {f \in PageForms("user-1") : SchemaValid(f)}, n \in {1, 12}}

\* the instants at which the dashboard is opened: today at 9, and the start of
\* a day after every due date
DashboardNows == {NewDate(Today) + 9, NewDate(20270101)}

\* the status filter and the dashboard over lists of invoices with past and
\* future due dates
NextStatus ==
    \/ \E u \in RealUsers : Login(u, {})
    \/ /\ idSeq < MaxListed
       /\ \E form \in {PlainForm(user), LateForm(user)}, button \in {"SaveDraft", "CreateAndSend"} :
               Submit(form, button, {})
    \/ \E id \in KnownIds : UpdateInvoice(id, [status |-> "overdue"], {})
    \/ \E id \in KnownIds : MarkAsPaid(id, {})
    \/ \E status \in StatusSet : GetInvoicesByStatus(status)
    \/ \E now \in DashboardNows : RenderDashboard(now)

SpecStatus == Init /\ [][NextStatus]_vars

\* what the Clients page submits
ClientDataDomain == {[name |-> "Acme", email |-> "contact@acme.com"]}
ClientPatches == {[name |-> "Acme Ltd", email |-> "contact@acme.com"]}

\* the client ids a caller can pass: those of the list it holds, or the id of
\* the first demonstration client
ClientChoices == {clients[i].id : i \in 1..Len(clients)} \cup {"mock-1"}

\* the invoiceData the creation page computes for a draft with these items
DraftDataFor(items) ==
    SubmitInvoiceData(Form("", items, Num(5), Num(10)), Form("", items, Num(5), Num(10)), "draft")

\* both record managers, used by the registered users and in the two
\* demonstration sessions
NextRecords ==
    \/ \E u \in Users : Login(u, {})
    \/ Logout
    \/ /\ clientSeq < MaxRecords
       /\ \E clientData \in ClientDataDomain, errs \in ErrSets({"insertClient"}) :
               AddClient(clientData, errs)
    \/ \E id \in KnownClientIds, clientData \in ClientPatches, errs \in ErrSets({"updateClient"}) :
            UpdateClient(id, clientData, errs)
    \/ \E id \in KnownClientIds, errs \in ErrSets({"deleteClient"}) : DeleteClient(id, errs)
    \/ /\ idSeq < MaxRecords
       /\ \E clientId \in ClientChoices, items \in {<<>>, <<Item(Num(2), Num(100), Num(10))>>},
             errs \in ErrSets({"insertInvoice", "insertItems"}) :
               CreateInvoice(clientId, items, DraftDataFor(items), errs)
    \/ \E id \in KnownIds, errs \in ErrSets({"update"}) :
            UpdateInvoice(id, [status |-> "paid"], errs)
    \/ \E id \in KnownIds, errs \in ErrSets({"update"}) : MarkAsPaid(id, errs)
    \/ \E id \in KnownIds, errs \in ErrSets({"update"}) : SendInvoice(id, errs)
    \/ \E id \in KnownIds, errs \in ErrSets({"delete"}) : DeleteInvoice(id, errs)

SpecRecords == Init /\ [][NextRecords]_vars

MaxOps == 3        \* operations called in the interleaving specification
MaxInflight == 2   \* operations suspended at the same time

\* the ids of the rows the Invoices page shows
ListedIds == {invoices[i].id : i \in 1..Len(invoices)}

\* the record manager with its operations interleaved at their awaits, no
\* request failing for a reason other than a constraint of the store
NextAsync ==
    \/ Login("user-1", {})
    \/ /\ opSeq < MaxOps
       /\ Cardinality(inflight) < MaxInflight
       /\ \/ CallCreateInvoice(ClientOf(user), PlainForm(user).items,
                                SubmitInvoiceData(PlainForm(user), PlainForm(user), "draft"))
          \/ \E id \in ListedIds : CallMarkAsPaid(id)
          \/ \E id \in ListedIds : CallSendInvoice(id)
          \/ \E id \in ListedIds : CallDeleteInvoice(id)
    \/ \E o \in inflight : StoreAnswers(o)
    \/ \E o \in inflight : Resume(o)

SpecAsync == Init /\ [][NextAsync]_vars

\* the application is mounted: loading, getSession sent, a session of an
\* earlier visit possibly present, any path in the address bar
InitAuth ==
    /\ user = NoUser
    /\ invoices = <<>>
    /\ dbInvoices = {}
    /\ dbItems = {}
    /\ idSeq = 0
    /\ clients = <<>>
    /\ dbClients = SeedClients
    /\ clientSeq = 0
    /\ year = 2026
    /\ lastCall = NoCall
    /\ calcIn = [kind |-> "none"]
    /\ calcOut = NoOut
    /\ inflight = {}
    /\ opSeq = 0
    /\ userProfile = NullProfile
    /\ loading = TRUE
    /\ session \in {NoUser} \cup RealUsers
    /\ authPending = {[kind |-> "getSession"]}
    /\ location \in Paths

\* session, profile and routing
NextAuth ==
    \/ GetSessionResolved
    \/ \E u \in RealUsers : SignIn(u)
    \/ SignOut
    \/ \E u \in {MockAdminId, MockDemoId} : LoginMock(u)
    \/ LogoutMock
    \/ \E p \in authPending, error \in BOOLEAN : ProfileAnswered(p, error)
    \/ \E path \in Paths : OpenPath(path)
    \/ RenderRoutes

SpecAuth == InitAuth /\ [][NextAuth]_vars

InitCalc ==
    /\ user = NoUser
    /\ invoices = <<>>
    /\ dbInvoices = {}
    /\ dbItems = {}
    /\ idSeq = 0
    /\ clients = <<>>
    /\ dbClients = SeedClients
    /\ clientSeq = 0
    /\ year = 2026
    /\ lastCall = NoCall
    /\ calcIn \in CalcInputs \cup PdfInputs
    /\ calcOut = NoOut
    /\ inflight = {}
    /\ opSeq = 0
    /\ userProfile = NullProfile
    /\ loading = FALSE
    /\ session = NoUser
    /\ authPending = {}
    /\ location = "/auth"

NextCalc ==
    \/ ApplyItemTotal
    \/ ApplyInvoiceSubtotal
    \/ ApplyInvoiceTotal
    \/ ApplyGenerateManualPDF

SpecCalc == InitCalc /\ [][NextCalc]_vars

-----------------------------------------------------------------------------
\* Properties of the calculator (SpecCalc)

\* C1: for numbers s, d, t, calculateInvoiceTotal(s, d, t) returns
\* discountAmount = s*d/100, taxAmount = (s - discountAmount)*t/100 (the tax is
\* taken on the discounted subtotal) and total = s - discountAmount + taxAmount.
C1_InvoiceTotal ==
    (/\ calcOut.fn = "calculateInvoiceTotal"
     /\ IsNum(calcIn.subtotal) /\ IsNum(calcIn.discount) /\ IsNum(calcIn.taxRate))
    => LET s == calcIn.subtotal
           discountAmount == DivInt(Mul(s, calcIn.discount), 100)
           taxAmount == DivInt(Mul(Sub(s, discountAmount), calcIn.taxRate), 100)
       IN  /\ calcOut.val.discountAmount = discountAmount
           /\ calcOut.val.taxAmount = taxAmount
           /\ calcOut.val.total = Add(Sub(s, discountAmount), taxAmount)

\* 180 at 5% discount and 10% tax: 9 / 17.10 / 188.10
C1_Witness ==
    /\ calcOut.fn = "calculateInvoiceTotal"
    /\ calcIn.subtotal = Num(180) /\ calcIn.discount = Num(5) /\ calcIn.taxRate = Num(10)
    /\ calcOut.val = [discountAmount |-> Num(9), taxAmount |-> Frac(171, 10),
                      total |-> Frac(1881, 10)]

\* C8: for an item with quantity >= 1, price >= 0 and discount in 0..100 (a
\* missing discount counting as 0), calculateItemTotal(item) is
\* quantity * price * (1 - discount/100), and lies between 0 and quantity * price.
C8_ItemTotal ==
    (/\ calcOut.fn = "calculateItemTotal"
     /\ Leq(Num(1), calcIn.item.quantity)
     /\ Leq(Zero, calcIn.item.price)
     /\ calcIn.item.discount = Undefined \/ InRange(calcIn.item.discount, 0, 100))
    => LET q == calcIn.item.quantity
           price == calcIn.item.price
           d == IF calcIn.item.discount = Undefined THEN Zero ELSE calcIn.item.discount
       IN  /\ calcOut.val = Mul(Mul(q, price), Sub(Num(1), DivInt(d, 100)))
           /\ Leq(Zero, calcOut.val)
           /\ Leq(calcOut.val, Mul(q, price))

\* 2 x 100 at 10% discount is 180
C8_Witness ==
    /\ calcOut.fn = "calculateItemTotal"
    /\ calcIn.item.quantity = Num(2) /\ calcIn.item.price = Num(100)
    /\ calcIn.item.discount = Num(10)
    /\ calcOut.val = Num(180)

RECURSIVE SumOfItemTotals(_)
\* the sum of the line amounts, taken from the last item backwards
SumOfItemTotals(items) ==
    IF items = <<>> THEN Zero
    ELSE Add(SumOfItemTotals(SubSeq(items, 1, Len(items) - 1)),
             Mul(Mul(items[Len(items)].quantity, items[Len(items)].price),
                 Sub(Num(1), DivInt(OrZero(items[Len(items)].discount), 100))))

\* C9: calculateInvoiceSubtotal(items) is the sum of the line amounts of the
\* items (0 for the empty list), and every reordering of the items gives the
\* same result.
C9_Subtotal ==
    calcOut.fn = "calculateInvoiceSubtotal"
    => /\ calcOut.val = SumOfItemTotals(calcIn.items)
       /\ calcIn.items = <<>> => calcOut.val = Zero
       /\ \A f \in Permutations(1..Len(calcIn.items)) :
             calculateInvoiceSubtotal([i \in 1..Len(calcIn.items) |-> calcIn.items[f[i]]])
                 = calcOut.val

\* three different items: 180 + 2500 + 0.4375
C9_Witness ==
    /\ calcOut.fn = "calculateInvoiceSubtotal"
    /\ calcIn.items = << Item(Num(1), Frac(1, 2), Frac(25, 2)),
                         Item(Num(2), Num(100), Num(10)),
                         Item(Num(50), Num(50), Zero) >>
    /\ calcOut.val = Frac(42887, 16)

RECURSIVE SumLineAmounts(_)
\* the sum of the amounts of the printed table rows
SumLineAmounts(lines) ==
    IF lines = <<>> THEN Zero
    ELSE Add(SumLineAmounts(SubSeq(lines, 1, Len(lines) - 1)), lines[Len(lines)].itemTotal)

\* C11: every line amount the PDF export prints is calculateItemTotal(item) =
\* quantity * price * (1 - discount/100), the amount the preview shows for the
\* item, and the printed line amounts sum to the printed subtotal.
C11_PdfLineAmounts ==
    calcOut.fn = "generateManualPDF"
    => LET items == calcIn.invoice.items
           lines == calcOut.val.lines
       IN  /\ Len(lines) = Len(items)
           /\ \A i \in 1..Len(items) :
                 /\ lines[i].total = formatCurrency(calculateItemTotal(items[i]))
                 /\ lines[i].total = PreviewLineAmount(items[i])
           /\ calcOut.val.subtotal = "Subtotal: " \o formatCurrency(SumLineAmounts(lines))

-----------------------------------------------------------------------------
\* Properties of the creation page (SpecPage)

\* the amounts of a row agree to the cent
Consistent(r) ==
    /\ r.total = Round2(Add(Sub(r.subtotal, r.discount), r.tax_amount))
    /\ r.tax_amount = Round2(DivInt(Mul(Sub(r.subtotal, r.discount), r.tax_rate), 100))

Amounts(r) == <<r.subtotal, r.discount, r.tax_rate, r.tax_amount, r.total>>

\* C2: no operation changes total, subtotal, discount, tax rate or tax amount
\* of a persisted invoice without leaving total = subtotal - discount amount +
\* tax amount and tax amount = (subtotal - discount amount) * tax_rate / 100.
C2_AmountsRecomputed ==
    [][\A r \in dbInvoices : \A q \in dbInvoices' :
          (q.id = r.id /\ Amounts(q) /= Amounts(r)) => Consistent(q)]_vars

\* the row createInvoice has just inserted, if the insert went through
CreatedRows == {r \in dbInvoices : lastCall.op = "createInvoice" /\ r.id = lastCall.id}

\* C6 as stated: every invoice is in status draft when the creation page first
\* persists it, whichever button triggered the creation.
C6_CreatedAsDraft == \A r \in CreatedRows : r.status = "draft"

\* C6 as amended: an invoice is first persisted with the status of the button
\* that triggered it: draft for the two Save Draft buttons, sent for
\* Create & Send and for the preview's Send Invoice.
C6_CreatedWithButtonStatus ==
    \A r \in CreatedRows :
        /\ lastCall.button \in {"SaveDraft", "PreviewSaveDraft"} => r.status = "draft"
        /\ lastCall.button \in {"CreateAndSend", "PreviewSendInvoice"} => r.status = "sent"

C6_Witness ==
    \E r \in CreatedRows : lastCall.button = "CreateAndSend" /\ r.status = "sent"

\* C10: the subtotal, discount amount, tax amount and total the page shows and
\* passes to createInvoice are calculateInvoiceSubtotal(items) and
\* calculateInvoiceTotal(that subtotal, discount, tax rate) of the submitted data.
C10_PageUsesCalculator ==
    lastCall.op = "createInvoice"
    => LET subtotal == calculateInvoiceSubtotal(lastCall.data.items)
           t == calculateInvoiceTotal(subtotal, lastCall.data.discount, lastCall.data.tax_rate)
           expected == [subtotal |-> subtotal, discountAmount |-> t.discountAmount,
                        taxAmount |-> t.taxAmount, total |-> t.total]
       IN  /\ lastCall.shown = expected
           /\ lastCall.invoiceData.subtotal = expected.subtotal
           /\ lastCall.invoiceData.discount = expected.discountAmount
           /\ lastCall.invoiceData.tax_amount = expected.taxAmount
           /\ lastCall.invoiceData.total = expected.total

\* C12: the discount column of a created invoice holds the invoice-level
\* discount percentage the user entered, a value in 0..100.
C12_DiscountIsPercentage ==
    \A r \in CreatedRows :
        /\ r.discount = DecimalColumn(lastCall.data.discount, Zero)
        /\ InRange(r.discount, 0, 100)

-----------------------------------------------------------------------------
\* Properties of invoice numbering (SpecNumbering)

OwnRows(u) == {r \in dbInvoices : r.user_id = u}

\* C3: after any sequence of creations and deletions no two existing invoices
\* of a user carry the same number, and no creation whose store calls all went
\* through is rejected because the user already has an invoice with that number.
C3_NumbersUnique ==
    /\ \A r1, r2 \in dbInvoices :
          (r1.user_id = r2.user_id /\ r1.invoice_number = r2.invoice_number) => r1 = r2
    /\ ~ (/\ lastCall.op = "createInvoice"
          /\ lastCall.errs = {}
          /\ lastCall.outcome = "error"
          /\ \E r \in OwnRows(user) : r.invoice_number = lastCall.invoiceNumber)

\* N + 1 written with at least four digits
FourDigits(n) ==
    IF n < 10 THEN "000" \o ToString(n)
    ELSE IF n < 100 THEN "00" \o ToString(n)
    ELSE IF n < 1000 THEN "0" \o ToString(n)
    ELSE ToString(n)

\* C4: when the count query is answered, generateInvoiceNumber returns
\* INV-<current year>-<N+1 in four digits> for a user who has N invoices in the
\* store, other users' invoices not counted.
C4_NextNumber ==
    (lastCall.op = "generateInvoiceNumber" /\ lastCall.errs = {})
    => /\ lastCall.count = Num(Cardinality(OwnRows(user)))
       /\ lastCall.number =
            "INV-" \o ToString(year) \o "-" \o FourDigits(Cardinality(OwnRows(user)) + 1)

\* three invoices give INV-<year>-0004
C4_Witness ==
    /\ lastCall.op = "generateInvoiceNumber"
    /\ lastCall.errs = {}
    /\ Cardinality(OwnRows(user)) = 3
    /\ lastCall.number = "INV-2026-0004"

-----------------------------------------------------------------------------
\* Properties of the invoice lifecycle (Spec)

\* C5: the status of an existing invoice changes only from draft to sent or
\* from a status other than paid to paid; a paid invoice stays paid and no
\* invoice returns to draft.
C5_StatusTransitions ==
    [][\A r \in dbInvoices : \A q \in dbInvoices' :
          (q.id = r.id /\ q.status /= r.status)
          => \/ r.status = "draft" /\ q.status = "sent"
             \/ r.status /= "paid" /\ q.status = "paid"]_vars

\* C7: every invoice whose status is sent has the payment link
\* <origin>/invoice/<id> of its own id.
C7_SentHasPaymentLink ==
    \A r \in dbInvoices :
        r.status = "sent" => r.payment_link = Origin \o "/invoice/" \o r.id

\* the item rows a select by user u returns (select policy of invoice_items)
RetrievableItems(u) ==
    {it \in dbItems : \E r \in dbInvoices : r.id = it.invoice_id /\ r.user_id = AuthUid(u)}

\* C13: after a deleteInvoice(id) that succeeded the caller can retrieve no item
\* row referring to id, no item row referring to id is left without its invoice,
\* and the in-memory list holds no invoice with that id.
C13_DeleteRemovesItems ==
    (lastCall.op = "deleteInvoice" /\ lastCall.outcome = "ok")
    => /\ \A it \in RetrievableItems(user) : it.invoice_id /= lastCall.id
       /\ \A it \in dbItems :
             it.invoice_id = lastCall.id => \E r \in dbInvoices : r.id = lastCall.id
       /\ \A i \in 1..Len(invoices) : invoices[i].id /= lastCall.id

\* an invoice with an item row was deleted by its owner
C13_Witness ==
    /\ lastCall.op = "deleteInvoice"
    /\ lastCall.outcome = "ok"
    /\ lastCall.before /= {}
    /\ \A r \in dbInvoices : r.id /= lastCall.id

C19_StoreErrorsSurface ==
    ("failed" \in DOMAIN lastCall /\ lastCall.failed /= {}) => lastCall.outcome = "error"

-----------------------------------------------------------------------------
\* Properties of the status filter (SpecStatus)

\* the positions of the loaded invoices whose stored status is s
WithStatus(s) == {i \in 1..Len(invoices) : invoices[i].status = s}

\* C15: getInvoicesByStatus(s) returns the loaded invoices whose stored status
\* is s, in the order of the list, and changes no state; the due date plays no
\* part, for overdue as for every other status.
C15_FilterByStoredStatus ==
    [][lastCall'.op = "getInvoicesByStatus"
       => LET result == lastCall'.result
              s == lastCall'.status
          IN  /\ UNCHANGED <<user, invoices, clientVars, dbInvoices, dbItems, idSeq>>
              /\ Len(result) = Cardinality(WithStatus(s))
              /\ \A k \in 1..Len(result) :
                    result[k] = invoices[CHOOSE i \in WithStatus(s) :
                                            Cardinality({j \in WithStatus(s) : j <= i}) = k]
              /\ \A i \in 1..Len(invoices) :
                    (invoices[i].status = "sent" /\ s = "overdue")
                    => \A k \in 1..Len(result) : result[k].id /= invoices[i].id]_vars

\* the list holds a sent invoice past its due date and an overdue one that is
\* not due yet; only the second is returned for overdue
C15_Witness ==
    /\ lastCall.op = "getInvoicesByStatus"
    /\ lastCall.status = "overdue"
    /\ \E i, j \in 1..Len(invoices) :
          /\ invoices[i].status = "sent" /\ invoices[i].due_date < Today
          /\ invoices[j].status = "overdue" /\ invoices[j].due_date > Today
          /\ lastCall.result = <<invoices[j]>>

-----------------------------------------------------------------------------
\* Properties of the record managers (SpecRecords)

\* C16: a createInvoice call with an empty item list is rejected and persists
\* no invoice row.
C16_EmptyItemsRejected ==
    (lastCall.op = "createInvoice" /\ lastCall.data.items = <<>>)
    => /\ lastCall.outcome = "error"
       /\ \A r \in dbInvoices : r.id /= lastCall.id

C18_MockSessionsStayLocal ==
    (user \in {MockAdminId, MockDemoId} /\ "sent" \in DOMAIN lastCall)
    => lastCall.sent = {}

\* C20: when updateInvoice, deleteInvoice, markAsPaid, sendInvoice, addClient,
\* updateClient or deleteClient fails, or createInvoice fails at the insert of
\* the invoice row, the store and both in-memory lists are as before the call.
C20_FailureLeavesState ==
    [][(/\ lastCall'.outcome = "error"
        /\ \/ lastCall'.op \in {"updateInvoice", "deleteInvoice", "markAsPaid", "sendInvoice",
                                  "addClient", "updateClient", "deleteClient"}
           \/ lastCall'.op = "createInvoice" /\ "insertInvoice" \in lastCall'.failed)
       => UNCHANGED <<dbClients, dbInvoices, dbItems, clients, invoices>>]_vars

\* the delete of a client of the caller that has an invoice failed; the client,
\* the invoice and the list entry are still there
C20_Witness ==
    /\ lastCall.op = "deleteClient"
    /\ lastCall.outcome = "error"
    /\ \E c \in dbClients : c.id = lastCall.id /\ c.user_id = user
    /\ \E r \in dbInvoices : r.client_id = lastCall.id
    /\ \E i \in 1..Len(clients) : clients[i].id = lastCall.id

-----------------------------------------------------------------------------
\* Properties of the in-memory invoice list (Spec)

\* the operations after which the record manager has set or refreshed its list
ListOps == {"login", "fetchInvoices", "createInvoice", "updateInvoice", "markAsPaid",
            "sendInvoice", "deleteInvoice"}

\* C21: after the initial fetch and after every successful create, update and
\* delete, the in-memory invoice list is exactly the list of the calling user's
\* invoices in the store, newest-created first, each with its client and its items.
C21_ListMatchesStore ==
    (lastCall.op \in ListOps /\ lastCall.outcome = "ok")
        => invoices = SelectInvoices(dbInvoices, dbItems, user)

\* the same for the operations none of whose store requests was answered by an error
C21_ListMatchesStoreWithoutErrors ==
    (lastCall.op \in ListOps /\ lastCall.outcome = "ok" /\ lastCall.failed = {})
        => invoices = SelectInvoices(dbInvoices, dbItems, user)

-----------------------------------------------------------------------------
\* Out-of-range items (SpecCalc)

\* C22: for an item whose quantity is below 1 or whose price is below 0 (numbers,
\* the discount in 0..100 or missing), calculateItemTotal returns 0 or a clamped
\* non-negative amount: the result is never negative.
C22_ItemTotalNeverNegative ==
    (/\ calcOut.fn = "calculateItemTotal"
     /\ IsNum(calcIn.item.quantity) /\ IsNum(calcIn.item.price)
     /\ calcIn.item.discount = Undefined \/ InRange(calcIn.item.discount, 0, 100)
     /\ ~Leq(Num(1), calcIn.item.quantity) \/ ~Leq(Zero, calcIn.item.price))
    => Leq(Zero, calcOut.val)

-----------------------------------------------------------------------------
\* Partial failure of a creation (Spec)

\* C24: when createInvoice has inserted the invoice row and the insert of the
\* item rows is answered by an error, createInvoice fails, the invoice row stays
\* in the store with no item rows, and no further request (no compensating
\* delete, no refetch) is sent.
C24_NoRollback ==
    (/\ lastCall.op = "createInvoice"
     /\ "insertItems" \in lastCall.failed)
    => /\ lastCall.outcome = "error"
       /\ lastCall.returned = "nothing"
       /\ \E r \in dbInvoices : r.id = lastCall.id /\ r.invoice_number = lastCall.invoiceNumber
       /\ ~\E it \in dbItems : it.invoice_id = lastCall.id
       /\ lastCall.sent \subseteq {"count", "insertInvoice", "insertItems"}

\* a creation whose item insert failed, with the orphaned row in the store
C24_Witness ==
    /\ lastCall.op = "createInvoice"
    /\ lastCall.failed = {"insertItems"}
    /\ "insertInvoice" \in lastCall.sent
    /\ \E r \in dbInvoices : r.id = lastCall.id

-----------------------------------------------------------------------------
\* Validation at the submission boundary (SpecPage)

\* C26: every path of the creation page that calls createInvoice (Save Draft,
\* Create & Send and the two buttons of the preview) has passed the form schema
\* first: the data createInvoice is called with is never an invalid form.
C26_InvalidFormNeverCreates ==
    (lastCall.op = "createInvoice" /\ lastCall.button \in Buttons)
        => SchemaValid(lastCall.data)

-----------------------------------------------------------------------------
\* Numbering across users (SpecNumbering)

\* the users other than u that hold an invoice numbered n
OtherHolders(u, n) == {r.user_id : r \in {q \in dbInvoices : q.invoice_number = n}} \ {u}

\* C27: a createInvoice with a freshly generated number, run alone and with no
\* request failing for another reason, is never rejected because a different
\* user holds that invoice number: creation by one user is independent of the
\* invoices of the others.
C27_IndependentOfOtherUsers ==
    ~(/\ lastCall.op = "createInvoice"
      /\ lastCall.errs = {}
      /\ lastCall.outcome = "error"
      /\ lastCall.failed = {"insertInvoice"}
      /\ OtherHolders(user, lastCall.invoiceNumber) /= {}
      /\ ~\E r \in dbInvoices : r.user_id = user /\ r.invoice_number = lastCall.invoiceNumber)

-----------------------------------------------------------------------------
\* The value createInvoice returns (Spec)

\* C28: a createInvoice that succeeds returns the invoice it has just created,
\* the record with the new id: never undefined, nor a record of a list that
\* predates the creation.
C28_ReturnsCreatedInvoice ==
    (lastCall.op = "createInvoice" /\ lastCall.outcome = "ok")
        => lastCall.returned = lastCall.id

-----------------------------------------------------------------------------
\* The dashboard's classification (SpecStatus)

\* the number of the dashboard's three lists that hold the invoice with this id
TimesCounted(st, id) ==
    Cardinality({k \in {"paid", "pending", "overdue"} :
                    \E j \in 1..Len(st[k]) : st[k][j].id = id})

\* C30: on the dashboard every non-draft invoice of the list is counted in
\* exactly one of paid, pending and overdue, whatever the current time: none is
\* counted twice, and an invoice stored as overdue is counted as overdue.
C30_CountedExactlyOnce ==
    lastCall.op = "dashboard"
        => \A i \in 1..Len(invoices) :
              /\ invoices[i].status /= "draft"
                    => TimesCounted(lastCall.stats, invoices[i].id) = 1
              /\ invoices[i].status = "overdue"
                    => \E j \in 1..Len(lastCall.stats.overdue) :
                          lastCall.stats.overdue[j].id = invoices[i].id

-----------------------------------------------------------------------------
\* Interleaved operations (SpecAsync)

\* C25: operations in flight at the same time do not leave the cached list
\* wrong: once every operation that was called has completed, the in-memory
\* invoice list agrees with the store (an invoice whose delete succeeded is not
\* put back by the refetch of a markAsPaid or sendInvoice that was sent earlier
\* and arrives later).
C25_ListAgreesWhenQuiescent ==
    (user /= NoUser /\ inflight = {})
        => invoices = SelectInvoices(dbInvoices, dbItems, user)

\* the creations in flight that hold their generated number
Numbered == {o \in inflight : o.op = "createInvoice" /\ "number" \in DOMAIN o}

\* C23: two createInvoice calls of one user in flight together whose count
\* queries were both answered before either insert (both counted the same rows)
\* hold the same invoice number; the store then accepts only one of the two
\* inserts, so no two rows ever carry the same number.
C23_SameCountSameNumber ==
    /\ \A o1, o2 \in Numbered : o1.seen = o2.seen => o1.number = o2.number
    /\ \A r1, r2 \in dbInvoices : r1.invoice_number = r2.invoice_number => r1.id = r2.id

\* both creations have read the count 0, hold INV-2026-0001 and await their insert
C23_Witness ==
    \E o1, o2 \in Numbered :
        /\ o1.k /= o2.k
        /\ o1.req = "insertInvoice" /\ ~o1.answered
        /\ o2.req = "insertInvoice" /\ ~o2.answered
        /\ o1.count = o2.count
        /\ o1.number = o2.number

\* the later of the two inserts was rejected: one creation has failed and the
\* row of the other carries the number both had generated
C23_LaterInsertRejected ==
    \E o \in Numbered :
        /\ o.req = "insertInvoice" /\ o.answered /\ o.error
        /\ \E r \in dbInvoices : r.invoice_number = o.number /\ r.user_id = user
        /\ o.seen = {}

-----------------------------------------------------------------------------
\* Route guards (SpecAuth)

\* C29: the route guards decide on a fully loaded identity only: whenever
\* loading is false and a user is set, the profile of that user (with its admin
\* flag) has been loaded; so a decision of the guards never redirects an admin
\* from /admin to /dashboard, and sends an admin from /auth to /admin.
C29_GuardsSeeLoadedProfile ==
    /\ (~loading /\ user /= NoUser) => userProfile = ProfileOf(user)
    /\ (lastCall.op = "route" /\ lastCall.decided /\ lastCall.user /= NoUser
            /\ ProfileOf(lastCall.user).is_admin)
         => /\ lastCall.from = "/admin" => lastCall.to = "/admin"
            /\ lastCall.from = "/auth" => lastCall.to = "/admin"

====
